---- MODULE Spec2Model ----
(***************************************************************************)
(* State-machine model of the BK108X tuner driver (src/BK108X.h): the      *)
(* shadow register bank with its bit-field register views, the band /      *)
(* channel arithmetic, the seek engine and the RDS text accumulators.      *)
(***************************************************************************)
EXTENDS Integers, Sequences, FiniteSets, TLC

VARIABLES
    shadowRegisters,   \* uint16_t shadowRegisters[17]
    lastOp,            \* the last operation performed and what it returned
    nOps,              \* number of operations performed so far
    currentFrequency,  \* uint16_t currentFrequency
    currentFMBand,     \* uint8_t currentFMBand
    currentFMSpace,    \* uint8_t currentFMSpace
    seekState,         \* Idle, Requested, Polling, Completed, Failed
    seekKind,          \* what the engine is polling for: seek or tune
    seekReason,        \* outcome of the last request
    polls,             \* polls made by the request in progress
    rds_buffer2A,      \* char rds_buffer2A[65]
    rds_buffer2B,      \* char rds_buffer2B[33]
    rds_buffer0A,      \* char rds_buffer0A[9]
    rdsFlag2A,         \* text A/B flag last seen in a 2A group
    rdsFlag2B,         \* text A/B flag last seen in a 2B group
    lastGroup,         \* the RDS group last handed to the decoder
    rds_time,          \* the date and time char rds_time[20] is made of
    wire,              \* the bytes the last operation moved over the bus
    deviceRegisters,   \* the registers 0x00 .. 0x0F of the device
    scanOrigin,        \* the channel the device's seek started from
    showFunc,          \* void (*showFunc)() of the seek in progress is set
    shown              \* calls of showFunc made by the seek in progress

(***************************************************************************)
(* Seek direction and seek mode (#define bk_SEEK_xx).                      *)
(***************************************************************************)
bk_SEEK_DOWN == 0

bk_SEEK_UP == 1

bk_SEEK_WRAP == 0

bk_SEEK_STOP == 1

(***************************************************************************)
(* Register indices (#define REGxx).                                       *)
(***************************************************************************)
REG02 == 2
REG03 == 3
REG04 == 4
REG05 == 5
REG06 == 6
REG07 == 7
REG08 == 8
REG09 == 9
\* variant: the status base at the channel register
REG0A_as_REG03 == REG03

\* variant: the status base one register lower
REG0A_as_REG09 == REG09

REG0A == 10
REG0B == 11
REG0D == 13

\* number of words of shadowRegisters[17]
NumRegisters == 17

\* bound on the number of operations of one behaviour
MaxOps == 2

(***************************************************************************)
(* Fixed-width integer helpers.                                            *)
(***************************************************************************)
RECURSIVE TwoToThe(_)
TwoToThe(n) == IF n = 0 THEN 1 ELSE 2 * TwoToThe(n - 1)

\* the powers of two that fit a 32-bit integer, computed once
Pow2Table == [n \in 0..30 |-> TwoToThe(n)]

Pow2(n) == Pow2Table[n]

\* variant: the value kept in 8 bits only
U16_as_uint8(x) == x % 256

\* conversion to uint16_t
U16(x) == x % 65536

\* bits off .. off+w-1 of word
GetBits(word, off, w) == (word \div Pow2(off)) % Pow2(w)

\* word with bits off .. off+w-1 replaced by the low w bits of v
\* (assignment to an unsigned bit-field keeps the value modulo 2^w)
SetBits(word, off, w, v) ==
    word - GetBits(word, off, w) * Pow2(off) + (v % Pow2(w)) * Pow2(off)

(***************************************************************************)
(* Register views: the declared members of each union's struct, in         *)
(* declaration order.  unit is the size in bits of the declared type.      *)
(***************************************************************************)
F(n, w, u) == [name |-> n, width |-> w, unit |-> u]

\* variant: SKMODE declared before SEEK
bk_reg02_skmode_first ==
    << F("ENABLE", 1, 8), F("SNR_REF", 5, 8), F("DISABLE", 1, 8),
       F("SKAFCRL", 1, 8), F("SKMODE", 1, 8), F("SEEK", 1, 8),
       F("SEEKUP", 1, 8), F("STEREO", 1, 8), F("MONO", 1, 8),
       F("MUTER", 1, 8), F("MUTEL", 1, 8), F("DSMUTE", 1, 8) >>

\* variant: SEEKUP declared before SEEK
bk_reg02_seekup_first ==
    << F("ENABLE", 1, 8), F("SNR_REF", 5, 8), F("DISABLE", 1, 8),
       F("SKAFCRL", 1, 8), F("SEEKUP", 1, 8), F("SEEK", 1, 8),
       F("SKMODE", 1, 8), F("STEREO", 1, 8), F("MONO", 1, 8),
       F("MUTER", 1, 8), F("MUTEL", 1, 8), F("DSMUTE", 1, 8) >>

\* variant: SKMODE declared before SEEKUP
bk_reg02_skmode_before_seekup ==
    << F("ENABLE", 1, 8), F("SNR_REF", 5, 8), F("DISABLE", 1, 8),
       F("SKAFCRL", 1, 8), F("SEEK", 1, 8), F("SKMODE", 1, 8),
       F("SEEKUP", 1, 8), F("STEREO", 1, 8), F("MONO", 1, 8),
       F("MUTER", 1, 8), F("MUTEL", 1, 8), F("DSMUTE", 1, 8) >>

bk_reg02 ==
    << F("ENABLE", 1, 8), F("SNR_REF", 5, 8), F("DISABLE", 1, 8),
       F("SKAFCRL", 1, 8), F("SEEK", 1, 8), F("SEEKUP", 1, 8),
       F("SKMODE", 1, 8), F("STEREO", 1, 8), F("MONO", 1, 8),
       F("MUTER", 1, 8), F("MUTEL", 1, 8), F("DSMUTE", 1, 8) >>

\* variant: a 10-bit channel, as READCHAN has
bk_reg03_chan10 == << F("CHAN", 10, 16), F("TUNE", 1, 16) >>

bk_reg03 == << F("CHAN", 15, 16), F("TUNE", 1, 16) >>

bk_reg04 ==
    << F("GPIO1", 2, 8), F("GPIO2", 2, 8), F("GPIO3", 2, 8),
       F("BLNDADJ", 3, 8), F("TCPILOT", 2, 8), F("AGCD", 1, 8),
       F("DE", 1, 8), F("RDSEN", 1, 8), F("AFCINV", 1, 8),
       F("STCIEN", 1, 8), F("RDSIEN", 1, 8) >>

\* variant: BAND declared before SPACE
bk_reg05_band_first ==
    << F("VOLUME", 5, 8), F("BAND", 2, 8), F("SPACE", 2, 8),
       F("SEEKTH", 7, 8) >>

bk_reg05 ==
    << F("VOLUME", 5, 8), F("SPACE", 2, 8), F("BAND", 2, 8),
       F("SEEKTH", 7, 8) >>

bk_reg06 ==
    << F("SKCNT", 4, 8), F("SKSNR", 7, 8), F("CLKSEL", 1, 8),
       F("SMUTEA", 2, 8), F("SMUTER", 2, 8) >>

bk_reg07 ==
    << F("FMGAIN", 3, 8), F("STGAIN", 5, 8), F("IMPTH", 2, 8),
       F("BPDE", 1, 8), F("IMPEN", 1, 8), F("SIQ", 1, 8),
       F("MODE", 1, 8), F("RESERVED", 2, 8) >>

bk_reg08 == << F("lowByte", 8, 8), F("highByte", 8, 8) >>

bk_reg09 == << F("lowByte", 8, 8), F("highByte", 8, 8) >>

\* variant: STC declared before SF_BL
bk_reg0a_stc_first ==
    << F("RSSI", 8, 8), F("ST", 1, 8), F("BLERA", 2, 8), F("RDSS", 1, 8),
       F("AFCRL", 1, 8), F("STC", 1, 8), F("SF_BL", 1, 8), F("RDSR", 1, 8) >>

\* variant: RDSR declared before STC
bk_reg0a_rdsr_first ==
    << F("RSSI", 8, 8), F("ST", 1, 8), F("BLERA", 2, 8), F("RDSS", 1, 8),
       F("AFCRL", 1, 8), F("SF_BL", 1, 8), F("RDSR", 1, 8), F("STC", 1, 8) >>

bk_reg0a ==
    << F("RSSI", 8, 8), F("ST", 1, 8), F("BLERA", 2, 8), F("RDSS", 1, 8),
       F("AFCRL", 1, 8), F("SF_BL", 1, 8), F("STC", 1, 8), F("RDSR", 1, 8) >>

bk_reg0b ==
    << F("READCHAN", 10, 16), F("BLERD", 2, 16), F("BLERC", 2, 16),
       F("BLERB", 2, 16) >>

bk_rds_blockb_group0 ==
    << F("address", 2, 8), F("DI", 1, 8), F("MS", 1, 8), F("TA", 1, 8),
       F("programType", 5, 8), F("trafficProgramCode", 1, 8),
       F("versionCode", 1, 8), F("groupType", 4, 8) >>

\* variant: the text A/B flag declared before the address
bk_rds_blockb_group2_flag_first ==
    << F("textABFlag", 1, 8), F("address", 4, 8), F("programType", 5, 8),
       F("trafficProgramCode", 1, 8), F("versionCode", 1, 8),
       F("groupType", 4, 8) >>

\* variant: a 5-bit address
bk_rds_blockb_group2_address5 ==
    << F("address", 5, 8), F("textABFlag", 1, 8), F("programType", 5, 8),
       F("trafficProgramCode", 1, 8), F("versionCode", 1, 8),
       F("groupType", 4, 8) >>

bk_rds_blockb_group2 ==
    << F("address", 4, 8), F("textABFlag", 1, 8), F("programType", 5, 8),
       F("trafficProgramCode", 1, 8), F("versionCode", 1, 8),
       F("groupType", 4, 8) >>

\* variant: the version code declared before the traffic program code
bk_rds_blockb_refined_version_first ==
    << F("content", 4, 8), F("textABFlag", 1, 8), F("programType", 5, 8),
       F("versionCode", 1, 8), F("trafficProgramCode", 1, 8),
       F("groupType", 4, 8) >>

bk_rds_blockb_refined ==
    << F("content", 4, 8), F("textABFlag", 1, 8), F("programType", 5, 8),
       F("trafficProgramCode", 1, 8), F("versionCode", 1, 8),
       F("groupType", 4, 8) >>

bk_rds_date_time ==
    << F("offset", 5, 8), F("offset_sense", 1, 8), F("minute1", 2, 8),
       F("minute2", 4, 8), F("hour1", 4, 8), F("hour2", 1, 8),
       F("mjd", 17, 32) >>

\* variant: highByte declared before lowByte
word16_to_bytes_high_first == << F("highByte", 8, 8), F("lowByte", 8, 8) >>

word16_to_bytes == << F("lowByte", 8, 8), F("highByte", 8, 8) >>

\* the views laid over the shadow bank (reg02 .. reg0b pointers)
RegViewNames ==
    {"bk_reg02", "bk_reg03", "bk_reg04", "bk_reg05", "bk_reg06",
     "bk_reg07", "bk_reg08", "bk_reg09", "bk_reg0a", "bk_reg0b"}

\* the three variants of the block B union
BlockBViewNames ==
    {"bk_rds_blockb_group0", "bk_rds_blockb_group2", "bk_rds_blockb_refined"}

ViewNames ==
    RegViewNames \cup BlockBViewNames
        \cup {"word16_to_bytes", "bk_rds_date_time"}

Views ==
    [v \in ViewNames |->
        CASE v = "bk_reg02" -> bk_reg02
          [] v = "bk_reg03" -> bk_reg03
          [] v = "bk_reg04" -> bk_reg04
          [] v = "bk_reg05" -> bk_reg05
          [] v = "bk_reg06" -> bk_reg06
          [] v = "bk_reg07" -> bk_reg07
          [] v = "bk_reg08" -> bk_reg08
          [] v = "bk_reg09" -> bk_reg09
          [] v = "bk_reg0a" -> bk_reg0a
          [] v = "bk_reg0b" -> bk_reg0b
          [] v = "bk_rds_blockb_group0" -> bk_rds_blockb_group0
          [] v = "bk_rds_blockb_group2" -> bk_rds_blockb_group2
          [] v = "bk_rds_blockb_refined" -> bk_rds_blockb_refined
          [] v = "word16_to_bytes" -> word16_to_bytes
          [] v = "bk_rds_date_time" -> bk_rds_date_time]

\* the word of the bank each register view points at
ViewReg ==
    [v \in RegViewNames |->
        CASE v = "bk_reg02" -> REG02
          [] v = "bk_reg03" -> REG03
          [] v = "bk_reg04" -> REG04
          [] v = "bk_reg05" -> REG05
          [] v = "bk_reg06" -> REG06
          [] v = "bk_reg07" -> REG07
          [] v = "bk_reg08" -> REG08
          [] v = "bk_reg09" -> REG09
          [] v = "bk_reg0a" -> REG0A
          [] v = "bk_reg0b" -> REG0B]

(***************************************************************************)
(* Bit-field allocation: members are allocated from the least significant  *)
(* bit upwards, and a member never crosses a boundary of the storage unit  *)
(* of its declared type; one that would is moved to the next unit.         *)
(***************************************************************************)
Place(pos, w, unit) ==
    IF (pos % unit) + w > unit THEN pos + unit - (pos % unit) ELSE pos

RECURSIVE OffsetIn(_, _)
OffsetIn(view, i) ==
    IF i = 1
    THEN Place(0, view[1].width, view[1].unit)
    ELSE Place(OffsetIn(view, i - 1) + view[i - 1].width,
               view[i].width, view[i].unit)

\* bit offset of every member of every view, from the start of the union
Layout ==
    [v \in ViewNames |-> [i \in 1..Len(Views[v]) |-> OffsetIn(Views[v], i)]]

FieldNames(v) == {Views[v][i].name : i \in 1..Len(Views[v])}

\* position of each named member in its view
FieldIndexTable ==
    [v \in ViewNames |->
        [n \in FieldNames(v) |->
            CHOOSE i \in 1..Len(Views[v]) : Views[v][i].name = n]]

FieldIndex(v, n) == FieldIndexTable[v][n]

FieldWidth(v, i) == Views[v][i].width

RECURSIVE SumWidths(_, _)
SumWidths(view, i) ==
    IF i = 0 THEN 0 ELSE view[i].width + SumWidths(view, i - 1)

\* the bits of the union a member occupies
FieldBits(v, i) == Layout[v][i] .. (Layout[v][i] + FieldWidth(v, i) - 1)

(***************************************************************************)
(* Field access through a register view.  The view is a pointer to one     *)
(* word of shadowRegisters, so bit b of the union is bit b % 16 of word    *)
(* ViewReg[v] + b \div 16 (little-endian words).                           *)
(***************************************************************************)
FieldWord(v, i) == ViewReg[v] + (Layout[v][i] \div 16)

FieldShift(v, i) == Layout[v][i] % 16

readField(bank, v, i) ==
    GetBits(bank[FieldWord(v, i)], FieldShift(v, i), FieldWidth(v, i))

writeField(bank, v, i, value) ==
    [bank EXCEPT ![FieldWord(v, i)] =
        SetBits(@, FieldShift(v, i), FieldWidth(v, i), value)]

(***************************************************************************)
(* Inputs of the register-bank operations.                                 *)
(***************************************************************************)
\* 16-bit values handed to the writers; 65535 is wider than every field
WordInputs == {0, 65535}

\* uint8_t register numbers handed to the raw accessors
RegInputs == {0, 4, 5, 15, 16, 17, 255}

\* the device after power up: the chip ids in 0x00 and 0x01 and a value in
\* every other register, none of them with equal bytes
DevicePowerUp == [r \in 0..15 |-> 4096 + 17 * r + 1]

\* scanOrigin while the device is not seeking
NoScan == -1

\* rds_time before any date and time was decoded: the empty string
NoTime == [set |-> FALSE, mjd |-> 0, hour |-> 0, minute |-> 0, offset |-> 0]

NoGroup == [blockB |-> 0, blockC |-> 0, blockD |-> 0, tail |-> 0]

NoOp == [op |-> "none", view |-> "none", field |-> 0, reg |-> 0,
         value |-> 0, result |-> 0, err |-> "None"]

tuneVars == <<currentFrequency, currentFMBand, currentFMSpace,
              seekState, seekKind, seekReason, polls>>

rdsVars == <<rds_buffer2A, rds_buffer2B, rds_buffer0A, rdsFlag2A, rdsFlag2B,
             lastGroup, rds_time>>

busVars == <<wire, deviceRegisters, scanOrigin>>

showVars == <<showFunc, shown>>

vars == <<shadowRegisters, lastOp, nOps, tuneVars, rdsVars, busVars,
          showVars>>

\* a statically allocated BK108X object: the bank is zero
Init ==
    /\ shadowRegisters = [r \in 0..(NumRegisters - 1) |-> 0]
    /\ lastOp = NoOp
    /\ nOps = 0
    /\ currentFrequency = 0
    /\ currentFMBand = 0
    /\ currentFMSpace = 0
    /\ seekState = "Idle"
    /\ seekKind = "none"
    /\ seekReason = "None"
    /\ polls = 0
    /\ rds_buffer2A = [k \in 0..64 |-> 0]
    /\ rds_buffer2B = [k \in 0..32 |-> 0]
    /\ rds_buffer0A = [k \in 0..8 |-> 0]
    /\ rdsFlag2A = 0
    /\ rdsFlag2B = 0
    /\ lastGroup = NoGroup
    /\ rds_time = NoTime
    /\ wire = << >>
    /\ deviceRegisters = DevicePowerUp
    /\ scanOrigin = NoScan
    /\ showFunc = FALSE
    /\ shown = 0

(***************************************************************************)
(* Register bank operations.                                               *)
(***************************************************************************)
\* regXX->refined.FIELD = value
WriteFieldOp(v, i, value) ==
    /\ nOps < MaxOps
    /\ shadowRegisters' = writeField(shadowRegisters, v, i, value)
    /\ lastOp' = [NoOp EXCEPT !.op = "writeField", !.view = v, !.field = i,
                              !.reg = ViewReg[v], !.value = value]
    /\ nOps' = nOps + 1
    /\ UNCHANGED <<tuneVars, rdsVars, showVars, busVars>>

\* void setShadownRegister(uint8_t register_number, uint16_t value)
setShadownRegister(register_number, value) ==
    /\ nOps < MaxOps
    /\ shadowRegisters' =
           IF register_number > 15
           THEN shadowRegisters
           ELSE [shadowRegisters EXCEPT ![register_number] = value]
    /\ lastOp' = [NoOp EXCEPT !.op = "setShadownRegister",
                              !.reg = register_number, !.value = value]
    /\ nOps' = nOps + 1
    /\ UNCHANGED <<tuneVars, rdsVars, showVars, busVars>>

\* uint16_t getShadownRegister(uint8_t register_number): no range check; an
\* index past the array reads whatever lies behind it
getShadownRegister(register_number) ==
    /\ nOps < MaxOps
    /\ \E garbage \in WordInputs :
          lastOp' = [NoOp EXCEPT !.op = "getShadownRegister",
                                 !.reg = register_number,
                                 !.result =
                                     IF register_number < NumRegisters
                                     THEN shadowRegisters[register_number]
                                     ELSE garbage]
    /\ nOps' = nOps + 1
    /\ UNCHANGED <<shadowRegisters, tuneVars, rdsVars, showVars, busVars>>

Next ==
    \/ \E v \in RegViewNames : \E i \in 1..Len(Views[v]) :
          \E value \in WordInputs : WriteFieldOp(v, i, value)
    \/ \E r \in RegInputs : \E value \in WordInputs :
          setShadownRegister(r, value)
    \/ \E r \in RegInputs : getShadownRegister(r)

Spec == Init /\ [][Next]_vars

(***************************************************************************)
(* Band tables and channel arithmetic.                                     *)
(***************************************************************************)
\* uint16_t startBand[4] = {8750, 7600, 7600, 6400}
startBand == [b \in 0..3 |->
                 CASE b = 0 -> 8750 [] b = 1 -> 7600 [] b = 2 -> 7600
                   [] b = 3 -> 6400]

\* uint16_t endBand[4] = {10800, 10800, 9000, 10800}
endBand == [b \in 0..3 |->
               CASE b = 0 -> 10800 [] b = 1 -> 10800 [] b = 2 -> 9000
                 [] b = 3 -> 10800]

\* uint16_t fmSpace[4] = {20, 10, 5, 1}
fmSpace == [s \in 0..3 |->
               CASE s = 0 -> 20 [] s = 1 -> 10 [] s = 2 -> 5 [] s = 3 -> 1]

\* variant: only the start of the band is checked
InBand_start_only(f, band) == startBand[band] <= f

InBand(f, band) == startBand[band] <= f /\ f <= endBand[band]

\* (frequency - start[band]) / space, an integer division, as uint16_t
frequencyToChannel(f, band, space) ==
    U16((f - startBand[band]) \div fmSpace[space])

\* start[band] + channel * space, as uint16_t
channelToFrequency(channel, band, space) ==
    U16(startBand[band] + channel * fmSpace[space])

\* the last channel of the band
MaxChannel(band, space) ==
    (endBand[band] - startBand[band]) \div fmSpace[space]

\* f lies exactly on a channel of the band
OnChannel(f, band, space) ==
    InBand(f, band) /\ (f - startBand[band]) % fmSpace[space] = 0

(***************************************************************************)
(* Named fields of the bank.                                               *)
(***************************************************************************)
GetField(bank, v, n) == readField(bank, v, FieldIndex(v, n))

SetField(bank, v, n, value) == writeField(bank, v, FieldIndex(v, n), value)

\* the channel held in the channel field
Chan == GetField(shadowRegisters, "bk_reg03", "CHAN")

(***************************************************************************)
(* The device, as far as the driver can see it.  A status read returns     *)
(* register 0x0A and then 0x0B.  The device reports a channel of the band  *)
(* it was configured for, in the 10 bits of READCHAN.                      *)
(***************************************************************************)
\* bound on the polls of one seek or tune
MaxPolls == 2

\* bound on the tuning operations of one behaviour
MaxTuneOps == 3

\* status words the device may answer: nothing, SF/BL, STC, STC with SF/BL
DeviceStatusWords == {0, 8192, 16384, 24576}

DeviceChannels(band, space) ==
    {c \in {0, 102, 1023, 1024, 4400} :
        c <= MaxChannel(band, space)}

\* words i = 1 .. Len(words) of a read land in 0x0A, 0x0B, .. 0x0F, 0x00, ..
syncFromDevice(bank, words) ==
    [r \in DOMAIN bank |->
        LET i == ((r + 16 - REG0A) % 16) + 1
        IN IF r < 16 /\ i <= Len(words) THEN words[i] ELSE bank[r]]

(***************************************************************************)
(* Transfers.  The driver converts between a word and its two bytes        *)
(* through the word16_to_bytes union.                                      *)
(***************************************************************************)
\* member n of the union v holding image
UnionField(image, v, n) ==
    GetBits(image, Layout[v][FieldIndex(v, n)], FieldWidth(v, FieldIndex(v, n)))

\* member n of the union holding raw
ByteOf(raw, n) == UnionField(raw, "word16_to_bytes", n)

\* raw of the union whose members were set to high and low
WordOf(high, low) ==
    high * Pow2(Layout["word16_to_bytes"][FieldIndex("word16_to_bytes",
                                                     "highByte")])
    + low * Pow2(Layout["word16_to_bytes"][FieldIndex("word16_to_bytes",
                                                      "lowByte")])

\* the bytes of registers REG02 .. limit of the bank: high byte, low byte
RECURSIVE WriteBytes(_, _)
WriteBytes(bank, limit) ==
    IF limit < REG02 THEN << >>
    ELSE WriteBytes(bank, limit - 1)
             \o << ByteOf(bank[limit], "highByte"),
                   ByteOf(bank[limit], "lowByte") >>

\* the device after a write of bytes: register 0x02 + k takes bytes 2k + 1
\* (high) and 2k + 2 (low)
DeviceWrite(device, bytes) ==
    [r \in DOMAIN device |->
        IF r >= 2 /\ 2 * (r - 1) <= Len(bytes)
        THEN 256 * bytes[2 * (r - 2) + 1] + bytes[2 * (r - 2) + 2]
        ELSE device[r]]

\* the bytes the device answers a read of count registers with
RECURSIVE DeviceRead(_, _)
DeviceRead(device, count) ==
    IF count = 0 THEN << >>
    ELSE DeviceRead(device, count - 1)
             \o << device[(10 + count - 1) % 16] \div 256,
                   device[(10 + count - 1) % 16] % 256 >>

\* the words the driver makes of the bytes read
WordsOf(bytes) ==
    [i \in 1..(Len(bytes) \div 2) |-> WordOf(bytes[2 * i - 1], bytes[2 * i])]

(***************************************************************************)
(* The tuner of the device, as the register comments of the header         *)
(* describe it: SEEK is 02h[8], SKMODE 02h[10] with SEEKUP between them,    *)
(* TUNE 03h[15]; STC and SF/BL are bits 14 and 13 of the status register   *)
(* 0x0A and READCHAN the low 10 bits of 0x0B.                              *)
(***************************************************************************)
DeviceSeek(device) == GetBits(device[2], 8, 1)

DeviceSeekUp(device) == GetBits(device[2], 9, 1)

DeviceSkMode(device) == GetBits(device[2], 10, 1)

DeviceTuneBit(device) == GetBits(device[3], 15, 1)

DeviceStc(device) == GetBits(device[10], 14, 1)

DeviceSfBl(device) == GetBits(device[10], 13, 1)

\* the last channel of the band and spacing the device is set to
DeviceTop(device) ==
    MaxChannel(GetBits(device[5], 8, 2), GetBits(device[5], 5, 2))

\* the channel the device is on, a channel of its band
DeviceChannel(device) ==
    IF GetBits(device[11], 0, 10) > DeviceTop(device)
    THEN DeviceTop(device)
    ELSE GetBits(device[11], 0, 10)

\* the device with STC, SF/BL and READCHAN set
WithStatus(device, stc, sfbl, channel) ==
    [device EXCEPT ![10] = SetBits(SetBits(@, 14, 1, stc), 13, 1, sfbl),
                   ![11] = SetBits(@, 0, 10, channel)]

\* setting the SEEK or TUNE bit low clears STC and SF/BL
DeviceLatch(device) ==
    IF DeviceSeek(device) = 0 /\ DeviceTuneBit(device) = 0
    THEN [device EXCEPT ![10] = SetBits(SetBits(@, 14, 1, 0), 13, 1, 0)]
    ELSE device

\* an operation that changed the bank writes registers 0x02 .. 0x07 through
PushToDevice(bank) ==
    /\ wire' = WriteBytes(bank, REG07)
    /\ deviceRegisters' = DeviceLatch(DeviceWrite(deviceRegisters, wire'))
    /\ scanOrigin' = IF DeviceSeek(deviceRegisters') = 0
                     THEN NoScan ELSE scanOrigin

(***************************************************************************)
(* Frequency / channel operations.                                         *)
(***************************************************************************)
TuneOp(name, value, err) ==
    [NoOp EXCEPT !.op = name, !.value = value, !.err = err]

\* channel re-validated against the band: clamped to the last channel
Clamp(channel, band, space) ==
    IF channel > MaxChannel(band, space)
    THEN MaxChannel(band, space)
    ELSE channel

\* void setBand(uint8_t band)
setBand(band) ==
    /\ seekState = "Idle" /\ nOps < MaxTuneOps
    /\ LET channel == Clamp(Chan, band, currentFMSpace)
       IN /\ shadowRegisters' =
                 SetField(SetField(shadowRegisters, "bk_reg05", "BAND", band),
                          "bk_reg03", "CHAN", channel)
          /\ currentFrequency' =
                 channelToFrequency(channel, band, currentFMSpace)
    /\ currentFMBand' = band
    /\ PushToDevice(shadowRegisters')
    /\ lastOp' = TuneOp("setBand", band, "None")
    /\ nOps' = nOps + 1
    /\ UNCHANGED <<currentFMSpace, seekState, seekKind, seekReason, polls,
                   rdsVars, showVars>>

\* void setSpace(uint8_t space)
setSpace(space) ==
    /\ seekState = "Idle" /\ nOps < MaxTuneOps
    /\ LET channel == Clamp(Chan, currentFMBand, space)
       IN /\ shadowRegisters' =
                 SetField(SetField(shadowRegisters, "bk_reg05", "SPACE", space),
                          "bk_reg03", "CHAN", channel)
          /\ currentFrequency' =
                 channelToFrequency(channel, currentFMBand, space)
    /\ currentFMSpace' = space
    /\ PushToDevice(shadowRegisters')
    /\ lastOp' = TuneOp("setSpace", space, "None")
    /\ nOps' = nOps + 1
    /\ UNCHANGED <<currentFMBand, seekState, seekKind, seekReason, polls,
                   rdsVars, showVars>>

\* void setChannel(uint16_t channel): channel field, tune request, then the
\* engine polls for completion
StartTune(channel) ==
    /\ shadowRegisters' =
           SetField(SetField(shadowRegisters, "bk_reg03", "CHAN", channel),
                    "bk_reg03", "TUNE", 1)
    /\ PushToDevice(shadowRegisters')
    /\ seekState' = "Polling"
    /\ seekKind' = "tune"
    /\ seekReason' = "None"
    /\ polls' = 0

\* void setFrequency(uint16_t frequency)
setFrequency(frequency) ==
    /\ seekState = "Idle" /\ nOps < MaxTuneOps
    /\ nOps' = nOps + 1
    /\ IF InBand(frequency, currentFMBand)
       THEN LET channel ==
                    frequencyToChannel(frequency, currentFMBand, currentFMSpace)
            IN /\ StartTune(channel)
               /\ currentFrequency' =
                      channelToFrequency(channel, currentFMBand, currentFMSpace)
               /\ lastOp' = [TuneOp("setFrequency", frequency, "None")
                                EXCEPT !.result = currentFrequency']
       ELSE /\ lastOp' = TuneOp("setFrequency", frequency, "OutOfBandRange")
            /\ UNCHANGED <<shadowRegisters, currentFrequency, seekState,
                           seekKind, seekReason, polls, busVars>>
    /\ UNCHANGED <<currentFMBand, currentFMSpace, rdsVars, showVars>>

\* wrap mode of reg02: SKMODE = bk_SEEK_WRAP
WrapMode == GetField(shadowRegisters, "bk_reg02", "SKMODE") = 0

Step(name, channel) ==
    /\ seekState = "Idle" /\ nOps < MaxTuneOps
    /\ nOps' = nOps + 1
    /\ StartTune(channel)
    /\ currentFrequency' =
           channelToFrequency(channel, currentFMBand, currentFMSpace)
    /\ lastOp' = TuneOp(name, channel, "None")
    /\ UNCHANGED <<currentFMBand, currentFMSpace, rdsVars, showVars>>

\* void setFrequencyUp()
setFrequencyUp ==
    Step("setFrequencyUp",
         IF Chan < MaxChannel(currentFMBand, currentFMSpace) THEN Chan + 1
         ELSE IF WrapMode THEN 0 ELSE Chan)

\* void setFrequencyDown()
setFrequencyDown ==
    Step("setFrequencyDown",
         IF Chan > 0 THEN Chan - 1
         ELSE IF WrapMode THEN MaxChannel(currentFMBand, currentFMSpace)
         ELSE Chan)

(***************************************************************************)
(* Seek engine: Idle -> Requested -> Polling -> {Completed, Failed} -> Idle *)
(***************************************************************************)
\* a seek request, with or without showFunc: the combined write
SeekRequest(seek_mode, direction, show) ==
    /\ seekState = "Idle" /\ nOps < MaxTuneOps
    /\ nOps' = nOps + 1
    /\ shadowRegisters' =
           SetField(SetField(SetField(shadowRegisters,
                                      "bk_reg02", "SEEK", 1),
                             "bk_reg02", "SKMODE", seek_mode),
                    "bk_reg02", "SEEKUP", direction)
    /\ seekState' = "Requested"
    /\ seekKind' = "seek"
    /\ seekReason' = "None"
    /\ polls' = 0
    /\ PushToDevice(shadowRegisters')
    /\ lastOp' = TuneOp("seek", 2 * seek_mode + direction, "None")
    /\ showFunc' = show
    /\ shown' = 0
    /\ UNCHANGED <<currentFrequency, currentFMBand, currentFMSpace, rdsVars>>

\* void seek(uint8_t seek_mode, uint8_t direction)
seek(seek_mode, direction) == SeekRequest(seek_mode, direction, FALSE)

\* void seek(uint8_t seek_mode, uint8_t direction, void (*showFunc)())
seek_showFunc(seek_mode, direction) ==
    SeekRequest(seek_mode, direction, TRUE)

\* seek-enable toggled off and on again, each with a write of its own, then
\* polling starts
SeekArm ==
    /\ seekState = "Requested"
    /\ LET off == SetField(shadowRegisters, "bk_reg02", "SEEK", 0)
       IN /\ shadowRegisters' = SetField(off, "bk_reg02", "SEEK", 1)
          /\ wire' = WriteBytes(off, REG07)
                         \o WriteBytes(shadowRegisters', REG07)
          /\ deviceRegisters' =
                 DeviceLatch(DeviceWrite(
                     DeviceLatch(DeviceWrite(deviceRegisters,
                                             WriteBytes(off, REG07))),
                     WriteBytes(shadowRegisters', REG07)))
    /\ scanOrigin' = NoScan
    /\ seekState' = "Polling"
    /\ UNCHANGED <<lastOp, nOps, currentFrequency, currentFMBand,
                   currentFMSpace, seekKind, seekReason, polls, rdsVars,
                   showVars>>

\* one poll: showFunc, if there is one, is called, the status registers are
\* read again and the flags examined
Poll(status, channel) ==
    /\ seekState = "Polling" /\ polls < MaxPolls
    /\ polls' = polls + 1
    /\ LET bank == syncFromDevice(shadowRegisters,
                                  <<status, channel % 1024>>)
           stc  == GetField(bank, "bk_reg0a", "STC")
           sfbl == GetField(bank, "bk_reg0a", "SF_BL")
           read == GetField(bank, "bk_reg0b", "READCHAN")
       IN IF stc = 1 /\ sfbl = 0
          THEN /\ seekState' = "Completed"
               /\ seekReason' = "Completed"
               /\ IF seekKind = "seek"
                  THEN /\ shadowRegisters' =
                              SetField(bank, "bk_reg03", "CHAN", read)
                       /\ currentFrequency' =
                              channelToFrequency(read, currentFMBand,
                                                 currentFMSpace)
                  ELSE /\ shadowRegisters' = bank
                       /\ UNCHANGED currentFrequency
          ELSE /\ shadowRegisters' = bank
               /\ UNCHANGED currentFrequency
               /\ IF stc = 1
                  THEN seekState' = "Failed" /\ seekReason' = "SeekFailed"
                  ELSE IF polls' = MaxPolls
                  THEN seekState' = "Failed" /\ seekReason' = "SeekTimedOut"
                  ELSE UNCHANGED <<seekState, seekReason>>
    /\ shown' = IF showFunc /\ seekKind = "seek" THEN shown + 1 ELSE shown
    /\ UNCHANGED <<lastOp, nOps, currentFMBand, currentFMSpace, seekKind,
                   rdsVars, busVars, showFunc>>

\* polling of a seek: the device reports any channel of the band
PollSeek ==
    /\ seekKind = "seek"
    /\ \E status \in DeviceStatusWords :
          \E channel \in DeviceChannels(currentFMBand, currentFMSpace) :
              Poll(status, channel)

\* polling of a tune (waitAndFinishTune): the device reports the channel set
PollTune ==
    /\ seekKind = "tune"
    /\ \E status \in DeviceStatusWords : Poll(status, Chan)

\* after either terminal state the request bit is cleared: back to Idle
Finish ==
    /\ seekState \in {"Completed", "Failed"}
    /\ shadowRegisters' =
           IF seekKind = "seek"
           THEN SetField(shadowRegisters, "bk_reg02", "SEEK", 0)
           ELSE SetField(shadowRegisters, "bk_reg03", "TUNE", 0)
    /\ PushToDevice(shadowRegisters')
    /\ seekState' = "Idle"
    /\ UNCHANGED <<lastOp, nOps, currentFrequency, currentFMBand,
                   currentFMSpace, seekKind, seekReason, polls, rdsVars,
                   showVars>>

\* frequencies handed to setFrequency: band edges, channels, off-channel
\* and out-of-band values
FrequencyInputs == {6399, 8750, 8755, 9000, 9424, 10800, 10810}

NextTune ==
    \/ \E band \in 0..3 : setBand(band)
    \/ \E space \in 0..3 : setSpace(space)
    \/ \E frequency \in FrequencyInputs : setFrequency(frequency)
    \/ setFrequencyUp
    \/ setFrequencyDown
    \/ \E seek_mode \in 0..1 : \E direction \in 0..1 :
          seek(seek_mode, direction)
    \/ SeekArm
    \/ PollSeek
    \/ PollTune
    \/ Finish

SpecTune == Init /\ [][NextTune]_vars

\* a request, once made, runs to its end: the driver is synchronous
\* the seek engine alone, with the band and spacing setters
NextSeek ==
    \/ \E band \in 0..3 : setBand(band)
    \/ \E space \in 0..3 : setSpace(space)
    \/ \E seek_mode \in 0..1 : \E direction \in 0..1 :
          seek(seek_mode, direction)
    \/ SeekArm
    \/ PollSeek
    \/ Finish

\* seeks with and without a progress callback, and nothing else
NextPoll ==
    \/ \E seek_mode \in {bk_SEEK_WRAP, bk_SEEK_STOP} :
          \E direction \in {bk_SEEK_DOWN, bk_SEEK_UP} :
              seek(seek_mode, direction)
    \/ \E seek_mode \in {bk_SEEK_WRAP, bk_SEEK_STOP} :
          \E direction \in {bk_SEEK_DOWN, bk_SEEK_UP} :
              seek_showFunc(seek_mode, direction)
    \/ SeekArm
    \/ PollSeek
    \/ Finish

SpecPoll == Init /\ [][NextPoll]_vars

EngineStep == SeekArm \/ PollSeek \/ Finish

\* seek() is synchronous: once called it runs until it returns
SpecSeekFair == Init /\ [][NextSeek]_vars /\ WF_vars(EngineStep)

(***************************************************************************)
(* RDS decoder.  Block B is read through the bk_rds_blockb union: bytes 0  *)
(* and 1 of the union are the block, and a member allocated past them is   *)
(* read from the bytes behind it, which the block does not set.            *)
(***************************************************************************)
\* bound on the groups ingested in one behaviour
MaxGroups == 2

\* the bytes of the union as a number: block B, then what lies behind it
UnionImage(blockB, tail) == blockB + 65536 * tail

highByte(word) == word \div 256

lowByte(word) == word % 256

Blank == 32

\* buffer with the characters of chars stored from position at on
PutChars(buffer, at, chars) ==
    [k \in DOMAIN buffer |->
        IF at <= k /\ k < at + Len(chars) THEN chars[k - at + 1] ELSE buffer[k]]

\* buffer of n characters reset to blanks, with its terminator
Blanks(n) == [k \in 0..n |-> IF k < n THEN Blank ELSE 0]

\* group 0A / 0B: two characters of block D at slot address (2 bits)
Group0(image, blockD) ==
    LET address == UnionField(image, "bk_rds_blockb_group0", "address")
    IN /\ rds_buffer0A' =
              PutChars(rds_buffer0A, 2 * address,
                       <<highByte(blockD), lowByte(blockD)>>)
       /\ UNCHANGED <<rds_buffer2A, rds_buffer2B, rdsFlag2A, rdsFlag2B,
                      rds_time>>

\* group 2A: four characters of blocks C and D at slot address (4 bits);
\* a change of the text A/B flag resets the buffer first
Group2A(image, blockC, blockD) ==
    LET address == UnionField(image, "bk_rds_blockb_group2", "address")
        flag    == UnionField(image, "bk_rds_blockb_group2", "textABFlag")
        base    == IF flag # rdsFlag2A THEN Blanks(64) ELSE rds_buffer2A
    IN /\ rds_buffer2A' =
              PutChars(base, 4 * address,
                       <<highByte(blockC), lowByte(blockC),
                         highByte(blockD), lowByte(blockD)>>)
       /\ rdsFlag2A' = flag
       /\ UNCHANGED <<rds_buffer2B, rds_buffer0A, rdsFlag2B, rds_time>>

\* group 2B: two characters of block D at slot address (4 bits); its own
\* latched text A/B flag
Group2B(image, blockD) ==
    LET address == UnionField(image, "bk_rds_blockb_group2", "address")
        flag    == UnionField(image, "bk_rds_blockb_group2", "textABFlag")
        base    == IF flag # rdsFlag2B THEN Blanks(32) ELSE rds_buffer2B
    IN /\ rds_buffer2B' =
              PutChars(base, 2 * address,
                       <<highByte(blockD), lowByte(blockD)>>)
       /\ rdsFlag2B' = flag
       /\ UNCHANGED <<rds_buffer2A, rds_buffer0A, rdsFlag2A, rds_time>>

\* raw[0 .. 5] of bk_rds_date_time loaded with blocks D, C and B, low byte
\* first, and pad, what the bytes of the union behind raw hold
DateTimeImage(blockB, blockC, blockD, pad) ==
    << lowByte(blockD), highByte(blockD), lowByte(blockC), highByte(blockC),
       lowByte(blockB), highByte(blockB), pad >>

\* bits off .. off+w-1 of the bytes of a union, byte 0 first
RECURSIVE BytesBits(_, _, _)
BytesBits(bytes, off, w) ==
    IF w = 0 THEN 0
    ELSE GetBits(bytes[(off \div 8) + 1], off % 8, 1)
             + 2 * BytesBits(bytes, off + 1, w - 1)

\* member n of bk_rds_date_time
TimeField(bytes, n) ==
    BytesBits(bytes, Layout["bk_rds_date_time"][FieldIndex("bk_rds_date_time", n)],
              FieldWidth("bk_rds_date_time", FieldIndex("bk_rds_date_time", n)))

\* where a build may allocate mjd: in the next uint32_t unit, by the rule
\* above, or right behind hour2 where a uint32_t needs no alignment
MjdOffsets ==
    LET v == "bk_rds_date_time"
        i == FieldIndex(v, "mjd")
    IN {Layout[v][i], Layout[v][i - 1] + FieldWidth(v, i - 1)}

\* group 4A: the date and time of the group replace the earlier ones
Group4A(bytes, at) ==
    LET hour   == TimeField(bytes, "hour2") * 16 + TimeField(bytes, "hour1")
        minute == TimeField(bytes, "minute2") * 4
                      + TimeField(bytes, "minute1")
        offset == IF TimeField(bytes, "offset_sense") = 1
                  THEN 0 - TimeField(bytes, "offset")
                  ELSE TimeField(bytes, "offset")
    IN /\ rds_time' = [set |-> TRUE,
                       mjd |-> BytesBits(bytes, at, 17),
                       hour |-> hour, minute |-> minute, offset |-> offset]
       /\ UNCHANGED <<rds_buffer2A, rds_buffer2B, rds_buffer0A, rdsFlag2A,
                      rdsFlag2B>>

\* group type and version code of a block B, as the union reads them
GroupTypeOf(image) == UnionField(image, "bk_rds_blockb_refined", "groupType")

VersionCodeOf(image) ==
    UnionField(image, "bk_rds_blockb_refined", "versionCode")

\* ingestGroup(blockA, blockB, blockC, blockD); block A is not used
ingestGroup(blockB, blockC, blockD, tail) ==
    /\ nOps < MaxGroups
    /\ nOps' = nOps + 1
    /\ lastGroup' = [blockB |-> blockB, blockC |-> blockC, blockD |-> blockD,
                     tail |-> tail]
    /\ lastOp' = [NoOp EXCEPT !.op = "ingestGroup", !.value = blockB]
    /\ LET image   == UnionImage(blockB, tail)
           type    == GroupTypeOf(image)
           version == VersionCodeOf(image)
       IN CASE type = 0 -> Group0(image, blockD)
            [] type = 2 /\ version = 0 -> Group2A(image, blockC, blockD)
            [] type = 2 /\ version = 1 -> Group2B(image, blockD)
            [] type = 4 /\ version = 0 ->
                   \E pad \in 0..1 : \E at \in MjdOffsets :
                       Group4A(DateTimeImage(blockB, blockC, blockD, pad), at)
            [] OTHER -> UNCHANGED <<rds_buffer2A, rds_buffer2B, rds_buffer0A,
                                    rdsFlag2A, rdsFlag2B, rds_time>>
    /\ UNCHANGED <<shadowRegisters, tuneVars, busVars, showVars>>

\* block B words: address 0, 1 or 15, text A/B flag (16), bit 14
BlockBInputs ==
    {a + 16 * f + 16384 * x : a \in {0, 1, 15}, f \in 0..1, x \in 0..1}

\* what the bytes behind block B may hold: type 0, type 2, and type 3,
\* which has no decoder
TailInputs == {0, 2, 3}

\* block C and D words: two characters each
CharWordInputs == {16706, 17220}

NextRds ==
    \E blockB \in BlockBInputs : \E tail \in TailInputs :
        \E blockC \in {16706} : \E blockD \in CharWordInputs :
            ingestGroup(blockB, blockC, blockD, tail)

SpecRds == Init /\ [][NextRds]_vars

\* block B words of date and time groups: the two high bits of the day in
\* bits 0 and 1, and bit 14
TimeBlockBInputs == {0, 1, 16385}

\* the bytes behind block B: type 4, type 3 and type 2
TimeTailInputs == {4, 3, 2}

\* block C words: the low 15 bits of the day 58849, and bit 4 of the hour
TimeBlockCInputs == {52162, 52163}

\* block D words: 14:30 +2 and 07:59 -3 (with block C bit 0: 23:59)
TimeBlockDInputs == {59266, 32483}

NextRdsTime ==
    \E blockB \in TimeBlockBInputs : \E tail \in TimeTailInputs :
        \E blockC \in TimeBlockCInputs : \E blockD \in TimeBlockDInputs :
            ingestGroup(blockB, blockC, blockD, tail)

SpecRdsTime == Init /\ [][NextRdsTime]_vars

\* block B words as stations send them, type in bits 12 .. 15 and version in
\* bit 11: a 3A group, a 1B group and a 2A group with the text A/B flag set
StationBlockBInputs == {12289, 6144, 8208}

\* the bytes behind block B: zero, and the types 2, 3 and 4
StationTailInputs == {0, 2, 3, 4}

NextRdsStation ==
    \E blockB \in StationBlockBInputs : \E tail \in StationTailInputs :
        \E blockC \in {16706} : \E blockD \in CharWordInputs :
            ingestGroup(blockB, blockC, blockD, tail)

SpecRdsStation == Init /\ [][NextRdsStation]_vars

(***************************************************************************)
(* The bus.  The device takes the bytes of a write as register 0x02 and    *)
(* the registers after it, and answers a read with register 0x0A and the   *)
(* registers after it, 0x00 following 0x0F; the high byte of a register    *)
(* travels first.  The driver converts between a word and its two bytes    *)
(* through the word16_to_bytes union.                                      *)
(***************************************************************************)
\* limit registers handed to setAllRegisters: none, one, the default, all
LimitInputs == {1, 2, 7, 15}

\* void setAllRegisters(uint8_t limit = 0x07)
setAllRegisters(limit) ==
    /\ nOps < MaxOps
    /\ nOps' = nOps + 1
    /\ wire' = WriteBytes(shadowRegisters, limit)
    /\ deviceRegisters' = DeviceWrite(deviceRegisters, wire')
    /\ lastOp' = [NoOp EXCEPT !.op = "setAllRegisters", !.value = limit]
    /\ UNCHANGED <<shadowRegisters, tuneVars, rdsVars, showVars, scanOrigin>>

\* syncFromDevice(count): void getAllRegisters() reads all 16 registers and
\* void getStatus() the first of them
getRegisters(count) ==
    /\ nOps < MaxOps
    /\ nOps' = nOps + 1
    /\ wire' = DeviceRead(deviceRegisters, count)
    /\ shadowRegisters' = syncFromDevice(shadowRegisters, WordsOf(wire'))
    /\ lastOp' = [NoOp EXCEPT !.op = "getRegisters", !.value = count]
    /\ UNCHANGED <<deviceRegisters, scanOrigin, tuneVars, rdsVars, showVars>>

\* registers and words of the raw writes that precede a transfer: the first
\* and the last register of the default write, one past it, and a status
\* register; words whose two bytes differ
BusRegInputs == {2, 7, 8, 10}

BusWordInputs == {258, 513}

\* the registers a status refresh asks for: 0x0A .. 0x0F
StatusCount == 6

\* how many registers the transport delivers: all of them, or fewer when
\* it fails
DeliveredInputs == {0, 1, 5, StatusCount}

\* refreshStatus(): void getStatus() with the outcome of the transport.  The
\* words that arrived before a failure are in the bank.
getStatus(delivered) ==
    /\ seekState = "Idle" /\ nOps < MaxTuneOps
    /\ nOps' = nOps + 1
    /\ wire' = DeviceRead(deviceRegisters, delivered)
    /\ shadowRegisters' = syncFromDevice(shadowRegisters, WordsOf(wire'))
    /\ lastOp' = [NoOp EXCEPT !.op = "getStatus", !.value = StatusCount,
                              !.err = IF delivered < StatusCount
                                      THEN "TransportFailure" ELSE "None"]
    /\ UNCHANGED <<deviceRegisters, scanOrigin, tuneVars, rdsVars, showVars>>

\* the seek engine and the band setters, with status refreshes in between
NextStatus ==
    \/ \E band \in 0..3 : setBand(band)
    \/ \E space \in 0..3 : setSpace(space)
    \/ \E seek_mode \in 0..1 : \E direction \in 0..1 :
          seek(seek_mode, direction)
    \/ SeekArm
    \/ PollSeek
    \/ Finish
    \/ \E delivered \in DeliveredInputs : getStatus(delivered)

SpecStatus == Init /\ [][NextStatus]_vars

NextBus ==
    \/ \E r \in BusRegInputs : \E value \in BusWordInputs :
          setShadownRegister(r, value)
    \/ \E limit \in LimitInputs : setAllRegisters(limit)
    \/ \E count \in 1..16 : getRegisters(count)

SpecBus == Init /\ [][NextBus]_vars

(***************************************************************************)
(* The seek of the device.  The scan passes the channels without a        *)
(* station unnoticed: one step takes it to the next channel with a         *)
(* station, to the band limit, or back to the channel it started from.     *)
(***************************************************************************)
\* channels with a station; the reception decides whether one is valid
Stations == {12, 33}

\* a tune: the device goes to CHAN and sets STC
DeviceTune ==
    /\ DeviceTuneBit(deviceRegisters) = 1
    /\ DeviceStc(deviceRegisters) = 0
    /\ deviceRegisters' =
           WithStatus(deviceRegisters, 1, 0, GetBits(deviceRegisters[3], 0, 10))
    /\ UNCHANGED <<shadowRegisters, lastOp, nOps, tuneVars, rdsVars, showVars,
                   wire,
                   scanOrigin>>

\* one step of a seek in progress
DeviceScan ==
    /\ DeviceSeek(deviceRegisters) = 1
    /\ DeviceTuneBit(deviceRegisters) = 0
    /\ DeviceStc(deviceRegisters) = 0
    /\ LET c == DeviceChannel(deviceRegisters)
           up == DeviceSeekUp(deviceRegisters) = 1
           wrap == DeviceSkMode(deviceRegisters) = 0
           limit == IF up THEN DeviceTop(deviceRegisters) ELSE 0
           opposite == IF up THEN 0 ELSE DeviceTop(deviceRegisters)
           origin == IF scanOrigin = NoScan THEN c ELSE scanOrigin
           ahead == {s \in Stations \cup {limit, origin} :
                        IF up THEN s > c /\ s <= limit ELSE s < c}
           next == CHOOSE s \in ahead :
                       \A t \in ahead : IF up THEN s <= t ELSE s >= t
       IN /\ scanOrigin' = origin
          /\ IF scanOrigin # NoScan /\ c = scanOrigin
             THEN \* SKMODE = 0: the whole band was scanned, the seek failed
                  deviceRegisters' = WithStatus(deviceRegisters, 1, 1, c)
             ELSE IF c = limit
             THEN IF wrap
                  THEN \* wrap at the band limit and continue seeking
                       deviceRegisters' =
                           WithStatus(deviceRegisters, 0, 0, opposite)
                  ELSE \* SKMODE = 1: the band limit has been reached
                       deviceRegisters' = WithStatus(deviceRegisters, 1, 1, c)
             ELSE \/ /\ next \in Stations
                     /\ deviceRegisters' =
                            WithStatus(deviceRegisters, 1, 0, next)
                  \/ IF next = limit /\ ~wrap
                     THEN deviceRegisters' =
                              WithStatus(deviceRegisters, 1, 1, next)
                     ELSE deviceRegisters' =
                              WithStatus(deviceRegisters, 0, 0, next)
    /\ UNCHANGED <<shadowRegisters, lastOp, nOps, tuneVars, rdsVars, showVars,
                   wire>>

\* one poll of the status registers of the device
PollDevice ==
    LET words == WordsOf(DeviceRead(deviceRegisters, 2))
    IN Poll(words[1], words[2])

\* frequencies tuned to before a seek: the bottom channel and the channel
\* below the top one
ScanFrequencyInputs == {8750, 10770}

\* the seek engine with the tuner of the device behind it
NextScan ==
    \/ \E frequency \in ScanFrequencyInputs : setFrequency(frequency)
    \/ \E seek_mode \in {bk_SEEK_WRAP, bk_SEEK_STOP} :
          \E direction \in {bk_SEEK_DOWN, bk_SEEK_UP} :
              seek(seek_mode, direction)
    \/ SeekArm
    \/ PollDevice
    \/ Finish
    \/ DeviceTune
    \/ DeviceScan

SpecScan == Init /\ [][NextScan]_vars

(***************************************************************************)
(* Properties of the register bank.                                      *)
(***************************************************************************)
Bit(word, b) == GetBits(word, b, 1)

\* C1: a field write changes only the bits of that field inside the
\* addressed word; every other bit of that word and all other 16 words of
\* the bank are the same before and after the call.
C1_WriteFieldFrame ==
    [][lastOp'.op = "writeField" =>
          \A r \in 0..(NumRegisters - 1) : \A b \in 0..15 :
              Bit(shadowRegisters'[r], b) # Bit(shadowRegisters[r], b)
                  => /\ r = lastOp'.reg
                     /\ b \in FieldBits(lastOp'.view, lastOp'.field)]_vars

\* C2: in every register view the declared field widths sum to exactly 16
\* bits and no two fields occupy the same bit position.
ViewFills16Bits(v) ==
    /\ SumWidths(Views[v], Len(Views[v])) = 16
    /\ \A i, j \in 1..Len(Views[v]) :
          i # j => FieldBits(v, i) \cap FieldBits(v, j) = {}

C2_ViewsFill16Bits ==
    /\ \A v \in BlockBViewNames : ViewFills16Bits(v)
    /\ lastOp.op = "writeField" => ViewFills16Bits(lastOp.view)

\* C10: a register index inside 0x00-0x10 is stored by a write and returned
\* by a read; an index outside is a no-op for a write and makes a read
\* signal InvalidRegister.
C10_RegisterIndexRange ==
    /\ lastOp.op = "setShadownRegister" /\ lastOp.reg \in 0..16
          => shadowRegisters[lastOp.reg] = lastOp.value
    /\ lastOp.op = "getShadownRegister" /\ lastOp.reg \in 0..16
          => lastOp.err = "None" /\ lastOp.result = shadowRegisters[lastOp.reg]
    /\ lastOp.op = "getShadownRegister" /\ lastOp.reg \notin 0..16
          => lastOp.err = "InvalidRegister"

(***************************************************************************)
(* Properties of the tuning state and the seek engine.                  *)
(***************************************************************************)
\* the flags of the status word last read, by bit position
StatusSTC == Bit(shadowRegisters[REG0A], 14)

StatusSFBL == Bit(shadowRegisters[REG0A], 13)

\* the channel last read back, by bit position
StatusReadChan == shadowRegisters[REG0B] % 1024

\* the seek-enable bit of the power configuration register
SeekEnable == Bit(shadowRegisters[REG02], 8)

\* the last tune or seek succeeded and the engine is back in Idle
TunedOk == seekState = "Idle" /\ seekReason = "Completed"

\* C3: after operations the last tune of which succeeded, the frequency is
\* inside the band and equals start[band] + channel * space, channel being
\* the value held in the channel field.
C3_TuningInvariant ==
    TunedOk =>
        /\ startBand[currentFMBand] <= currentFrequency
        /\ currentFrequency <= endBand[currentFMBand]
        /\ currentFrequency =
               startBand[currentFMBand]
                   + (shadowRegisters[REG03] % 32768) * fmSpace[currentFMSpace]

\* a successful seek that moved the tuner to a channel above 0
C3_Witness ==
    /\ TunedOk /\ lastOp.op = "seek"
    /\ currentFrequency > startBand[currentFMBand]
    /\ currentFMBand # 0 /\ currentFMSpace # 0

\* C4: for a frequency on a channel of the band, converting to the channel
\* and back gives the frequency again.
C4_ChannelRoundTrip ==
    ( /\ lastOp.op = "setFrequency" /\ lastOp.err = "None"
      /\ OnChannel(lastOp.value, currentFMBand, currentFMSpace) )
        => lastOp.result = lastOp.value

\* an on-channel frequency whose channel does not fit in 8 bits
C4_Witness ==
    /\ lastOp.op = "setFrequency" /\ lastOp.err = "None"
    /\ OnChannel(lastOp.value, currentFMBand, currentFMSpace)
    /\ lastOp.value - startBand[currentFMBand] > 255 * fmSpace[currentFMSpace]

Terminal == seekState \in {"Completed", "Failed"}

\* C5: every seek ends in Completed or Failed within the poll budget; when
\* the budget runs out with no completion seen, the outcome is Failed with
\* the reason SeekTimedOut, which is not SeekFailed.
C5_SeekTerminates ==
    /\ [](polls <= MaxPolls)
    /\ [](seekState = "Polling" => polls < MaxPolls)
    /\ [][seekState = "Polling" /\ seekState' = "Polling"
             => polls' = polls + 1]_vars
    /\ []((Terminal /\ polls = MaxPolls /\ StatusSTC = 0)
             => (seekState = "Failed" /\ seekReason = "SeekTimedOut"))
    /\ [](seekReason = "SeekTimedOut" => (polls = MaxPolls /\ StatusSTC = 0))
    /\ [](seekReason = "SeekFailed" => StatusSTC = 1)
    /\ (seekState = "Requested" ~> Terminal)

\* a seek whose polls were all answered without the complete flag
C5_Witness ==
    /\ seekKind = "seek" /\ seekState = "Failed"
    /\ seekReason = "SeekTimedOut" /\ polls = MaxPolls

\* C6: a seek is Completed exactly when a poll saw STC set and SF/BL clear,
\* and then the frequency is the one of the channel read back; it is Failed
\* with SeekFailed when a poll saw STC and SF/BL both set.
C6_SeekOutcome ==
    /\ seekState = "Completed" =>
          /\ StatusSTC = 1 /\ StatusSFBL = 0
          /\ seekKind = "seek" =>
                currentFrequency =
                    startBand[currentFMBand]
                        + StatusReadChan * fmSpace[currentFMSpace]
    /\ (seekState \in {"Polling", "Failed"} /\ polls > 0)
          => ~(StatusSTC = 1 /\ StatusSFBL = 0)
    /\ (seekState = "Failed" /\ seekReason = "SeekFailed")
          => (StatusSTC = 1 /\ StatusSFBL = 1)
    /\ (polls > 0 /\ StatusSTC = 1 /\ StatusSFBL = 1 /\ seekState # "Idle")
          => (seekState = "Failed" /\ seekReason = "SeekFailed")

\* a seek completed on a channel other than the first
C6_Witness ==
    /\ seekState = "Completed" /\ seekKind = "seek"
    /\ StatusReadChan > 0

LastImage == UnionImage(lastGroup.blockB, lastGroup.tail)

Is2A(image) == GroupTypeOf(image) = 2 /\ VersionCodeOf(image) = 0

Is2B(image) == GroupTypeOf(image) = 2 /\ VersionCodeOf(image) = 1

\* address and text A/B flag of a type 2 block B, by bit position
Address2(blockB) == blockB % 16

TextAB(blockB) == (blockB \div 16) % 2

TuneRequest == Bit(shadowRegisters[REG03], 15)

\* C11: setFrequency(f) with f outside [start[band], end[band]] reports
\* OutOfBandRange to its caller and does not clamp: the channel field, the
\* tune-request bit and currentFrequency are the same as before the call.
C11_OutOfBandRejected ==
    [][(lastOp'.op = "setFrequency" /\ nOps' = nOps + 1)
          => IF \/ lastOp'.value < startBand[currentFMBand]
                \/ lastOp'.value > endBand[currentFMBand]
             THEN /\ lastOp'.err = "OutOfBandRange"
                  /\ shadowRegisters'[REG03] = shadowRegisters[REG03]
                  /\ currentFrequency' = currentFrequency
                  /\ seekState' = seekState
             ELSE lastOp'.err = "None"]_vars

\* a frequency above the end of the Japan band, refused after a successful
\* tune inside it: the earlier channel and frequency are still there
C11_Witness ==
    /\ lastOp.op = "setFrequency" /\ lastOp.err = "OutOfBandRange"
    /\ currentFMBand = 2 /\ lastOp.value = 9424
    /\ seekState = "Idle" /\ TuneRequest = 0
    /\ currentFrequency = 9000 /\ Chan = 70

\* the channel field and the seek mode bit, by bit position
ChannelBits(bank) == bank[REG03] % 32768

SeekModeBit(bank) == Bit(bank[REG02], 10)

\* the last channel of the band in use
TopChannel ==
    (endBand[currentFMBand] - startBand[currentFMBand])
        \div fmSpace[currentFMSpace]

\* C16: setFrequencyUp and setFrequencyDown move the channel by exactly one
\* when the result stays inside the band; at the top edge a step up (at the
\* bottom edge a step down) moves to the opposite edge only in wrap mode and
\* otherwise leaves the channel at the edge.
C16_StepByOne ==
    [][LET c    == ChannelBits(shadowRegisters)
           next == ChannelBits(shadowRegisters')
           wrap == SeekModeBit(shadowRegisters) = 0
       IN /\ (lastOp'.op = "setFrequencyUp" /\ nOps' = nOps + 1)
                => /\ next = IF c < TopChannel THEN c + 1
                             ELSE IF wrap THEN 0 ELSE c
                   /\ currentFrequency' =
                          startBand[currentFMBand]
                              + next * fmSpace[currentFMSpace]
          /\ (lastOp'.op = "setFrequencyDown" /\ nOps' = nOps + 1)
                => /\ next = IF c > 0 THEN c - 1
                             ELSE IF wrap THEN TopChannel ELSE c
                   /\ currentFrequency' =
                          startBand[currentFMBand]
                              + next * fmSpace[currentFMSpace]]_vars

\* a step up in stop mode from the top channel, where a seek had ended: the
\* channel is still the top one
C16_Witness ==
    /\ lastOp.op = "setFrequencyUp" /\ SeekModeBit(shadowRegisters) = 1
    /\ currentFMBand = 0 /\ currentFMSpace = 0
    /\ ChannelBits(shadowRegisters) = 102 /\ currentFrequency = 10790

\* the band and spacing fields, by bit position
BandBits(bank) == GetBits(bank[REG05], 8, 2)

SpaceBits(bank) == GetBits(bank[REG05], 5, 2)

\* C17: setBand and setSpace write the BAND and SPACE fields and re-validate
\* the channel: afterwards the channel gives a frequency inside the new
\* band, clamped when it was out of range and unchanged when it was in range.
C17_BandChangeClamps ==
    [][(lastOp'.op \in {"setBand", "setSpace"} /\ nOps' = nOps + 1)
          => LET band  == IF lastOp'.op = "setBand" THEN lastOp'.value
                          ELSE currentFMBand
                 space == IF lastOp'.op = "setSpace" THEN lastOp'.value
                          ELSE currentFMSpace
                 top   == (endBand[band] - startBand[band])
                              \div fmSpace[space]
                 c     == ChannelBits(shadowRegisters)
                 next  == ChannelBits(shadowRegisters')
             IN /\ BandBits(shadowRegisters') = band
                /\ SpaceBits(shadowRegisters') = space
                /\ currentFMBand' = band /\ currentFMSpace' = space
                /\ next = IF c > top THEN top ELSE c
                /\ startBand[band] <= startBand[band] + next * fmSpace[space]
                /\ startBand[band] + next * fmSpace[space] <= endBand[band]
                /\ currentFrequency' =
                       startBand[band] + next * fmSpace[space]]_vars

\* the Japan band selected while the tuner was on channel 102 of the US
\* band: the channel is now 70, 90 MHz, the last one of the new band
C17_Witness ==
    /\ lastOp.op = "setBand" /\ lastOp.value = 2 /\ nOps = 2
    /\ BandBits(shadowRegisters) = 2 /\ SpaceBits(shadowRegisters) = 0
    /\ ChannelBits(shadowRegisters) = 70 /\ currentFrequency = 9000

(***************************************************************************)
(* Properties of the bus transfers.                                        *)
(***************************************************************************)
\* C12: every register write to the device starts at register 0x02 and
\* covers the registers 0x02 .. limit in ascending order, two bytes each,
\* high byte then low byte, taken from the shadow bank; registers 0x00 and
\* 0x01 are never written.
C12_WriteProtocol ==
    /\ [][lastOp'.op = "setAllRegisters" /\ nOps' = nOps + 1
             => LET limit == lastOp'.value
                IN /\ Len(wire') = IF limit < 2 THEN 0 ELSE 2 * (limit - 1)
                   /\ \A r \in 2..limit :
                         /\ wire'[2 * (r - 2) + 1] = shadowRegisters[r] \div 256
                         /\ wire'[2 * (r - 2) + 2] = shadowRegisters[r] % 256
                         /\ deviceRegisters'[r] = shadowRegisters[r]
                   /\ \A r \in 0..15 :
                         r \notin 2..limit
                             => deviceRegisters'[r] = deviceRegisters[r]]_vars
    /\ [][/\ deviceRegisters'[0] = deviceRegisters[0]
          /\ deviceRegisters'[1] = deviceRegisters[1]]_vars

\* the default write after register 0x02 was given a word whose bytes
\* differ: the device holds the word, the chip ids are untouched
C12_Witness ==
    /\ lastOp.op = "setAllRegisters" /\ lastOp.value = 7
    /\ shadowRegisters[REG02] = 258
    /\ wire[1] = 1 /\ wire[2] = 2 /\ Len(wire) = 12
    /\ deviceRegisters[REG02] = 258
    /\ deviceRegisters[0] = DevicePowerUp[0]
    /\ deviceRegisters[8] = DevicePowerUp[8]

\* C13: syncFromDevice(count), count 1 .. 16, stores the i-th word of the
\* answer in the shadow entry of the register the device sent it from:
\* 0x0A .. 0x0F for the first six, then 0x00, 0x01, ..; every shadow entry
\* the count does not cover is unchanged.
C13_ReadMapping ==
    [][lastOp'.op = "getRegisters" /\ nOps' = nOps + 1
          => LET count   == lastOp'.value
                 covered == {(10 + i - 1) % 16 : i \in 1..count}
             IN /\ count \in 1..16
                /\ \A i \in 1..count :
                      shadowRegisters'[IF i <= 6 THEN 10 + i - 1 ELSE i - 7]
                          = deviceRegisters[(10 + i - 1) % 16]
                /\ \A r \in 0..(NumRegisters - 1) :
                      r \notin covered
                          => shadowRegisters'[r] = shadowRegisters[r]]_vars

\* a read of eight words: 0x0A .. 0x0F, 0x00 and 0x01 hold the device's
\* words, and register 0x02, written before, is as it was
C13_Witness ==
    /\ lastOp.op = "getRegisters" /\ lastOp.value = 8
    /\ shadowRegisters[15] = DevicePowerUp[15]
    /\ shadowRegisters[0] = DevicePowerUp[0]
    /\ shadowRegisters[1] = DevicePowerUp[1]
    /\ shadowRegisters[REG02] = 258
    /\ shadowRegisters[16] = 0

\* C19: when the transport fails during a status refresh the failure is
\* reported to the caller, and the seek engine state, the band, spacing and
\* channel fields and currentFrequency are the same as before the call.
C19_FailedRefreshFrame ==
    [][(lastOp'.op = "getStatus" /\ nOps' = nOps + 1
        /\ Len(wire') < 2 * lastOp'.value)
          => /\ lastOp'.err = "TransportFailure"
             /\ UNCHANGED <<seekState, seekKind, seekReason, polls>>
             /\ UNCHANGED <<currentFrequency, currentFMBand, currentFMSpace>>
             /\ BandBits(shadowRegisters') = BandBits(shadowRegisters)
             /\ SpaceBits(shadowRegisters') = SpaceBits(shadowRegisters)
             /\ ChannelBits(shadowRegisters') =
                    ChannelBits(shadowRegisters)]_vars

\* a refresh that failed after one word, on a tuner a seek had moved to
\* channel 102 of the Japan wide band: only the status register changed
C19_Witness ==
    /\ lastOp.op = "getStatus" /\ lastOp.err = "TransportFailure"
    /\ Len(wire) = 2 /\ shadowRegisters[REG0A] = DevicePowerUp[REG0A]
    /\ seekReason = "Completed" /\ currentFMBand = 1
    /\ ChannelBits(shadowRegisters) = 102 /\ currentFrequency = 9640

(***************************************************************************)
(* Properties of the RDS date and time.                                    *)
(***************************************************************************)
Is4A(image) == GroupTypeOf(image) = 4 /\ VersionCodeOf(image) = 0

\* the step ingested a group the decoder took as 4A
Accepted4A ==
    /\ lastOp'.op = "ingestGroup" /\ nOps' = nOps + 1
    /\ Is4A(UnionImage(lastGroup'.blockB, lastGroup'.tail))

\* hour, minute and signed offset of a block C and D, by bit position
HourOf(blockC, blockD) == (blockC % 2) * 16 + (blockD \div 4096)

MinuteOf(blockD) == ((blockD \div 256) % 16) * 4 + ((blockD \div 64) % 4)

OffsetOf(blockD) ==
    IF (blockD \div 32) % 2 = 1 THEN 0 - (blockD % 32) ELSE blockD % 32

\* C14: for every accepted 4A group the hour is (high part << 4) | low 4
\* bits, the minute is (high 4 bits << 2) | low 2 bits and the offset is the
\* 5-bit magnitude, negative exactly when the sign bit is 1; the group
\* encoding MJD 58849, 14:30, offset +2 gives exactly these values.
C14_TimeDecode ==
    [][Accepted4A
          => /\ rds_time'.set
             /\ rds_time'.hour = HourOf(lastGroup'.blockC, lastGroup'.blockD)
             /\ rds_time'.minute = MinuteOf(lastGroup'.blockD)
             /\ rds_time'.offset = OffsetOf(lastGroup'.blockD)
             /\ ( /\ lastGroup'.blockB % 4 = 1
                  /\ lastGroup'.blockC = 52162
                  /\ lastGroup'.blockD = 59266 )
                   => rds_time' = [set |-> TRUE, mjd |-> 58849, hour |-> 14,
                                   minute |-> 30, offset |-> 2]]_vars

\* a group of type 4 whose version bit marks the date and time variant,
\* by the position of the bits the decoder reads
TimeGroup(group) ==
    group.tail % 16 = 4 /\ (group.blockB \div 16384) % 2 = 0

\* what the day of a group may be decoded as: from bit 17 of the six bytes,
\* or from block B and one bit behind it
DaysOf(group) ==
    {(group.blockC \div 2) + 32768 * (group.blockB % 4),
     group.blockB, group.blockB + 65536}

SentType(blockB) == blockB \div 4096

SentVersion(blockB) == (blockB \div 2048) % 2

\* the group is one the decoder has a branch for: 0A, 0B, 2A, 2B or 4A
Recognized(blockB) ==
    \/ SentType(blockB) \in {0, 2}
    \/ SentType(blockB) = 4 /\ SentVersion(blockB) = 0

\* C18: ingestGroup never errors, and a group whose type and version are
\* not 0A/0B, 2A, 2B or 4A leaves the three text buffers, both latched
\* flags and the date and time exactly as they were.
C18_UnknownGroupsDropped ==
    /\ [](lastOp.op = "ingestGroup" => lastOp.err = "None")
    /\ [][(lastOp'.op = "ingestGroup" /\ nOps' = nOps + 1
           /\ ~Recognized(lastGroup'.blockB))
             => UNCHANGED <<rds_buffer0A, rds_buffer2A, rds_buffer2B,
                            rdsFlag2A, rdsFlag2B, rds_time>>]_vars

\* channel the device reports in READCHAN
ReadChan(device) == device[REG0B] % 1024

\* a step of the tuner of the device during a seek the driver asked for
\* with seek_mode, direction up, that started below the top channel
ScanStepUp(seek_mode) ==
    /\ lastOp.op = "seek"
    /\ lastOp.value = 2 * seek_mode + bk_SEEK_UP
    /\ deviceRegisters' # deviceRegisters
    /\ wire' = wire
    /\ scanOrigin' # NoScan
    /\ scanOrigin' < TopChannel

\* C20: a seek up in wrap mode that started below the top channel and found
\* no valid channel up to the top goes on from channel 0 without
\* completing; below the top it moves upwards, and it fails only back at
\* the channel it started from.  The same seek in stop mode only moves
\* upwards, never to channel 0, and completes with SF/BL at the top
\* channel; the poll that sees this ends the engine in Failed with
\* SeekFailed and leaves the frequency alone.
C20_SeekWrapOrStop ==
    /\ [][ScanStepUp(bk_SEEK_WRAP) =>
             IF ReadChan(deviceRegisters) = TopChannel
             THEN /\ ReadChan(deviceRegisters') = 0
                  /\ Bit(deviceRegisters'[REG0A], 14) = 0
             ELSE \/ ReadChan(deviceRegisters') > ReadChan(deviceRegisters)
                  \/ /\ ReadChan(deviceRegisters) = scanOrigin
                     /\ ReadChan(deviceRegisters') = scanOrigin
                     /\ Bit(deviceRegisters'[REG0A], 14) = 1
                     /\ Bit(deviceRegisters'[REG0A], 13) = 1]_vars
    /\ [][ScanStepUp(bk_SEEK_STOP) =>
             /\ ReadChan(deviceRegisters') > ReadChan(deviceRegisters)
             /\ ReadChan(deviceRegisters') <= TopChannel
             /\ Bit(deviceRegisters'[REG0A], 13)
                    = IF ReadChan(deviceRegisters') = TopChannel THEN 1 ELSE 0
             /\ ReadChan(deviceRegisters') = TopChannel
                    => Bit(deviceRegisters'[REG0A], 14) = 1]_vars
    /\ [][(/\ lastOp.op = "seek"
           /\ lastOp.value = 2 * bk_SEEK_STOP + bk_SEEK_UP
           /\ polls' = polls + 1
           /\ ReadChan(deviceRegisters) = TopChannel
           /\ Bit(deviceRegisters[REG0A], 14) = 1
           /\ Bit(deviceRegisters[REG0A], 13) = 1)
             => /\ seekState' = "Failed"
                /\ seekReason' = "SeekFailed"
                /\ currentFrequency' = currentFrequency
                /\ ChannelBits(shadowRegisters') = ChannelBits(shadowRegisters)
          ]_vars

\* a wrap-mode seek up from channel 101 has passed the top channel and goes
\* on from channel 0
C20_Witness ==
    /\ lastOp.op = "seek"
    /\ lastOp.value = 2 * bk_SEEK_WRAP + bk_SEEK_UP
    /\ seekState = "Polling"
    /\ scanOrigin = 101
    /\ ReadChan(deviceRegisters) = 0
    /\ Bit(deviceRegisters[REG0A], 14) = 0

\* a stop-mode seek up from channel 101 has ended in Failed with SeekFailed
\* at the top channel
C20_StopWitness ==
    /\ lastOp.op = "seek"
    /\ lastOp.value = 2 * bk_SEEK_STOP + bk_SEEK_UP
    /\ seekState = "Failed"
    /\ seekReason = "SeekFailed"
    /\ scanOrigin = 101
    /\ ReadChan(deviceRegisters) = TopChannel
    /\ currentFrequency = 10770

\* bytes of one write of registers 0x02 .. 0x07
WriteLen == 2 * (REG07 - REG02 + 1)

\* the word for register 0x02 in write k of the bytes on the bus
Reg02Sent(bytes, k) ==
    256 * bytes[WriteLen * (k - 1) + 1] + bytes[WriteLen * (k - 1) + 2]

\* C21: seek(mode, direction) sends seek-enable, direction and mode in one
\* word of one write; the step that enters Polling has written register
\* 0x02 twice, first with seek-enable (02h[8]) 0 and then with seek-enable
\* 1 together with the requested direction (02h[9]) and mode (02h[10]),
\* and the device holds that word; a seek is polled only in Polling, with
\* seek-enable set in the device.
C21_SeekWriteOrder ==
    /\ [][(lastOp'.op = "seek" /\ nOps' = nOps + 1)
             => /\ Len(wire') = WriteLen
                /\ Bit(Reg02Sent(wire', 1), 8) = 1
                /\ Bit(Reg02Sent(wire', 1), 9) = lastOp'.value % 2
                /\ Bit(Reg02Sent(wire', 1), 10) = lastOp'.value \div 2
                /\ seekState' = "Requested"]_vars
    /\ [][(seekKind' = "seek" /\ seekState # "Polling"
                              /\ seekState' = "Polling")
             => /\ lastOp.op = "seek"
                /\ Len(wire') = 2 * WriteLen
                /\ Bit(Reg02Sent(wire', 1), 8) = 0
                /\ Bit(Reg02Sent(wire', 2), 8) = 1
                /\ Bit(Reg02Sent(wire', 2), 9) = lastOp.value % 2
                /\ Bit(Reg02Sent(wire', 2), 10) = lastOp.value \div 2
                /\ deviceRegisters'[REG02] = Reg02Sent(wire', 2)
                /\ Bit(deviceRegisters'[REG0A], 14) = 0
                /\ polls' = 0]_vars
    /\ [][(seekKind = "seek" /\ polls' = polls + 1)
             => /\ seekState = "Polling"
                /\ Bit(deviceRegisters[REG02], 8) = 1
                /\ Bit(deviceRegisters[REG02], 9) = lastOp.value % 2
                /\ Bit(deviceRegisters[REG02], 10) = lastOp.value \div 2]_vars

\* a stop-mode seek up, issued after a seek that ended on the station of
\* channel 33, has sent its two writes and is about to be polled
C21_Witness ==
    /\ nOps = 2
    /\ lastOp.op = "seek"
    /\ lastOp.value = 2 * bk_SEEK_STOP + bk_SEEK_UP
    /\ seekState = "Polling"
    /\ polls = 0
    /\ currentFrequency = 9410
    /\ Len(wire) = 2 * WriteLen
    /\ Bit(Reg02Sent(wire, 1), 8) = 0
    /\ Bit(Reg02Sent(wire, 2), 8) = 1

\* seek-enable as the driver holds it and as the device holds it
SeekEnabled ==
    Bit(shadowRegisters[REG02], 8) = 1 /\ Bit(deviceRegisters[REG02], 8) = 1

\* a seek leaves Polling only by a poll, one that saw STC or the last one of
\* the budget, and then it is in a terminal state
PollingExits ==
    [][(seekKind = "seek" /\ seekState = "Polling" /\ seekState' # "Polling")
         => /\ polls' = polls + 1
            /\ Bit(shadowRegisters'[REG0A], 14) = 1 \/ polls' = MaxPolls
            /\ seekState' \in {"Completed", "Failed"}]_vars

\* seek-enable is set in every state of the Polling phase
SeekEnableHeld ==
    [][/\ (seekKind = "seek" /\ seekState = "Polling") => SeekEnabled
       /\ (seekKind' = "seek" /\ seekState' = "Polling") => SeekEnabled']_vars

\* a poll calls showFunc once if there is one; the polls counted and the
\* state reached depend on the flags read and the budget alone
CallbackObserves ==
    [][/\ (seekKind = "seek" /\ polls' = polls + 1)
            => /\ showFunc' = showFunc
               /\ shown' = IF showFunc THEN shown + 1 ELSE shown
               /\ polls' <= MaxPolls
               /\ seekState' =
                      IF Bit(shadowRegisters'[REG0A], 14) = 1
                      THEN IF Bit(shadowRegisters'[REG0A], 13) = 0
                           THEN "Completed" ELSE "Failed"
                      ELSE IF polls' = MaxPolls THEN "Failed" ELSE "Polling"
       /\ seekKind' = "seek" => shown' = IF showFunc' THEN polls' ELSE 0]_vars

\* seek-enable is cleared only when a poll has seen STC
ClearedAfterCompletion ==
    [][(seekKind = "seek" /\ Bit(shadowRegisters[REG02], 8) = 1
                         /\ Bit(shadowRegisters'[REG02], 8) = 0)
         => seekReason \in {"Completed", "SeekFailed"}]_vars

\* seek-enable is cleared only when the Polling phase has ended: a poll has
\* seen STC or the last poll of the budget was made
ClearedAfterPolling ==
    [][(seekKind = "seek" /\ Bit(shadowRegisters[REG02], 8) = 1
                         /\ Bit(shadowRegisters'[REG02], 8) = 0)
         => /\ seekState \in {"Completed", "Failed"}
            /\ \/ seekReason \in {"Completed", "SeekFailed"}
               \/ seekReason = "SeekTimedOut" /\ polls = MaxPolls]_vars

Terminated(buffer, n) ==
    /\ DOMAIN buffer = 0..n
    /\ \A k \in 0..n : buffer[k] \in 0..255
    /\ buffer[n] = 0

\* after is before with chars at positions at .. at + Len(chars) - 1, all of
\* them below the terminator at n, and nothing else changed
FragmentWritten(after, before, at, chars, n) ==
    /\ at + Len(chars) <= n
    /\ \A k \in 0..n :
           after[k] = IF at <= k /\ k < at + Len(chars)
                      THEN chars[k - at + 1] ELSE before[k]

getRealChannel == GetField(shadowRegisters, "bk_reg0b", "READCHAN")

\* uint16_t getRealFrequency(): the frequency of the channel read back
getRealFrequency ==
    channelToFrequency(getRealChannel, currentFMBand, currentFMSpace)

\* C24: after a completed tune to a frequency f on a channel of the band,
\* for any band and spacing of the tables, the last channel of the band
\* fits the 15 bits of CHAN and the 10 bits of READCHAN, the channel of f
\* is in CHAN and is read back in READCHAN, and the frequency derived from
\* the channel read back is f.
C24_ChannelsRepresentable ==
    ( /\ TunedOk
      /\ lastOp.op = "setFrequency" /\ lastOp.err = "None"
      /\ OnChannel(lastOp.value, currentFMBand, currentFMSpace) )
        => /\ MaxChannel(currentFMBand, currentFMSpace) < 32768
           /\ MaxChannel(currentFMBand, currentFMSpace) < 1024
           /\ shadowRegisters[REG03] % 32768
                  = (lastOp.value - startBand[currentFMBand])
                        \div fmSpace[currentFMSpace]
           /\ getRealChannel = shadowRegisters[REG03] % 32768
           /\ getRealFrequency = lastOp.value

====
